---- MODULE Spec2Model ----
(***************************************************************************)
(* Model of backend_utils/polling.py: the poll() retry / backoff /         *)
(* deadline loop run once on a PollingOptions value (Spec, LiveSpec), the  *)
(* same run repeated through poll_sync (SyncSpec), and the single-slot     *)
(* cache of memomize_with_ttl / memoize (CacheSpec).                       *)
(*                                                                         *)
(* Time is counted in milliseconds.  The code keeps seconds (interval /    *)
(* 1000, timeout / 1000); a duration of s seconds is represented here by   *)
(* the number 1000 * s, so that floor() of a number of seconds becomes     *)
(* MsPerSecond * (x \div MsPerSecond).  The clock advances only while the  *)
(* coroutine is suspended (await fn(), await asyncio.sleep()).             *)
(***************************************************************************)
EXTENDS Integers, Sequences, FiniteSets

VARIABLES
    options,           \* the PollingOptions value handed to poll
    has_stop,          \* stop_condition is not None
    pc,                \* position of the run
    attempts,          \* local `attempts`
    current_interval,  \* local `current_interval` (ms)
    last_result,       \* local `last_result`
    last_error,        \* local `last_error`
    elapsed,           \* loop.time() - start_time (ms)
    outcome,           \* what poll returned
    calls,             \* history: one record per invocation of fn
    waits,             \* history: the delay given to each asyncio.sleep (ms)
    exit,              \* history: the return statement that ended the run
    variant,           \* "poll" or "poll_sync": the entry point of the run
    compare,           \* the poll run is followed by poll_sync on the same
                       \* options, predicate and operation behaviour
    tape,              \* history: what fn, the predicate and the timer did in
                       \* the poll run, in order
    first,             \* the outcome of the poll run, kept for comparison
    wiring,            \* how f and g were wrapped: each by its own call of
                       \* memomize_with_ttl, or both by one decorator object
    ttl,               \* the ttl argument of memomize_with_ttl
    use_lock,          \* the callers wrap each call in one critical section
    cache,             \* the `cache` variable of each memomize_with_ttl call
    now,               \* datetime.now()
    th,                \* each caller's position and locals inside func
    log                \* history: the calls of wrapped functions that returned

pollVars == << options, has_stop, pc, attempts, current_interval, last_result,
               last_error, elapsed, outcome, calls, waits, exit >>
replayVars == << variant, compare, tape, first >>

cacheVars == << wiring, ttl, use_lock, cache, now, th, log >>

vars == << pollVars, replayVars, cacheVars >>

----------------------------------------------------------------------------
(* Bounds and input sets *)

MaxRetryLimit == 4
MaxCalls == 3
MaxTime == 1

MsPerSecond == 1000

None == "None"

Intervals == {-100, 0, 100, 1000, 1500}
Timeouts == {-50, 0, 50, 5000}
BackoffFactors == {1, 2}
RetryLimits == (-1) .. MaxRetryLimit

Values == {"v1", "v2"}
Errors == {"e1", "e2"}
PredError == "e_pred"
OpDurations == {0, 60}
Lateness == {0, 20}

\* what one call of fn does: return a value or raise an error
RawResults ==
    [kind : {"value"}, payload : Values] \cup [kind : {"error"}, payload : Errors]
NoResult == [kind |-> "none", payload |-> None]

\* class PollingOptions: four int fields
PollingOptions ==
    [interval : Intervals, timeout : Timeouts,
     backoff_factor : BackoffFactors, retry_limit : RetryLimits]

\* The frozen dataclass has no __post_init__: every field value is accepted.
ConstructorAccepts(o) == TRUE

\* The invariant the data model states for PollingOptions.
ValidOptions(o) == o.interval >= 0 /\ o.timeout >= 0 /\ o.retry_limit >= 1

PollSuccess(result, n) == [kind |-> "Success", payload |-> result, attempts |-> n]
PollFailure(error, n) == [kind |-> "Failure", payload |-> error, attempts |-> n]
NoOutcome == [kind |-> "none", payload |-> None, attempts |-> 0]

Max(a, b) == IF a >= b THEN a ELSE b

RECURSIVE Pow(_, _)
Pow(b, n) == IF n = 0 THEN 1 ELSE b * Pow(b, n - 1)

----------------------------------------------------------------------------
(* Pieces of poll() *)

RetryOnErrorAlways(stop_present) == TRUE
\* retry_on_error = stop_condition is None
RetryOnError(stop_present) == ~stop_present

BudgetLeftInclusive(n, limit) == n <= limit
\* attempts < options.retry_limit
BudgetLeft(n, limit) == n < limit

DeadlinePassedStrict(t, timeout) == t > timeout
\* loop.time() - start_time >= timeout
DeadlinePassed(t, timeout) == t >= timeout

FinalizeAlwaysSuccess(err, res, n, retry) == PollSuccess(res, n)
FinalizeWithoutErrorTest(err, res, n, retry) ==
    IF retry THEN PollFailure(err, n) ELSE PollSuccess(res, n)
\* if last_error and retry_on_error: return PollFailure(...)
\* return PollSuccess(...)
Finalize(err, res, n, retry) ==
    IF err # None /\ retry THEN PollFailure(err, n) ELSE PollSuccess(res, n)

OnStopSatisfiedStaleResult(v, n) == PollSuccess(last_result, n)
\* if stop_condition(result): return PollSuccess(result=result, attempts=attempts)
OnStopSatisfied(v, n) == PollSuccess(v, n)

TryCoversOnlyFn(site) == site = "fn"
\* try: ... await fn() ... stop_condition(result) ... except Exception
TryCovers(site) == site \in {"fn", "stop_condition"}

\* current_interval = options.interval / 1000
InitialInterval(o) == o.interval

\* current_interval = floor(current_interval * options.backoff_factor)
NextInterval(cur, factor) == MsPerSecond * ((cur * factor) \div MsPerSecond)

NextAttemptSkips(n) == n + 2
\* attempts += 1
NextAttempt(n) == n + 1

WrappedFnNotCalled(r) == [kind |-> "value", payload |-> "fn"]
\* poll_sync: async def wrapped_fn(): return fn()
WrappedFn(r) == r

\* what `await fn()` gives poll: fn's own result, through wrapped_fn in poll_sync
Observed(r) == IF variant = "poll_sync" THEN WrappedFn(r) ELSE r

\* number of results of fn and of the timer used so far in this run
TapePos == Len(calls) + Len(waits)

\* The poll_sync run is given the operation, predicate and timer behaviour
\* that the poll run before it met; the poll run meets any behaviour.
Offered(t, r, d, p) ==
    \/ variant = "poll"
    \/ /\ TapePos < Len(tape)
       /\ LET e == tape[TapePos + 1] IN
             /\ e.t = t /\ e.r = r /\ e.d = d
             /\ e.p = p \/ e.p = "none"

Record(t, r, d, p) ==
    tape' = IF compare /\ variant = "poll"
            THEN Append(tape, [t |-> t, r |-> r, d |-> d, p |-> p])
            ELSE tape

SleepReturnsAtOnce(delay, late) == late
\* await asyncio.sleep(delay): at least delay passes, nothing for delay <= 0
SleepTime(delay, late) == Max(delay, 0) + late

----------------------------------------------------------------------------
(* memomize_with_ttl / memoize *)

Wrapped == {"f", "g"}
Args == {"a", "b"}
Cells == {"c1", "c2"}
Threads == {1, 2}

\* ttl: timedelta | None
NoTtl == [present |-> FALSE, d |-> 0]
Ttls == {NoTtl} \cup {[present |-> TRUE, d |-> k] : k \in {1, 2}}

NoValue == [fn |-> "none", arg |-> "none", seq |-> 0]
\* cache: Cache[R] | None = None
NoEntry == [present |-> FALSE, value |-> NoValue, expires |-> FALSE, expiry |-> 0]
Idle == [pc |-> "idle", w |-> "none", arg |-> "none", at |-> 0]

\* `cache` is a local of memomize_with_ttl that every func made by its wrapper
\* closes over: one cell per call of memomize_with_ttl, not per wrapped function
CellOf(w) == IF wiring = "shared" \/ w = "f" THEN "c1" ELSE "c2"

HitKeyedByArgs(e, nw, a) ==
    e.present /\ (~e.expires \/ nw < e.expiry) /\ e.value.arg = a
HitForgetsForever(e, nw, a) == e.present /\ e.expires /\ nw < e.expiry
\* if cache and (cache["expiry"] is None or now < cache["expiry"])
Hit(e, nw, a) == e.present /\ (~e.expires \/ nw < e.expiry)

\* expiry = None if ttl is None else now + ttl
\* cache = {"value": result, "expiry": expiry}
Entry(v, t, nw) ==
    [present |-> TRUE, value |-> v, expires |-> t.present,
     expiry |-> IF t.present THEN nw + t.d ELSE 0]

\* result = fn(*args, **kwargs): fn has side effects, each invocation of it
\* that returns gives a value of its own
Invocations(fn) == {k \in 1 .. Len(log) : ~log[k].hit /\ log[k].w = fn}
Result(fn, a) == [fn |-> fn, arg |-> a, seq |-> Cardinality(Invocations(fn)) + 1]

Started == Len(log) + Cardinality({t \in Threads : th[t].pc # "idle"})

\* Mutual exclusion is the callers' business: with it a call enters func only
\* when no other call is inside.
MayEnter(t) ==
    /\ th[t].pc = "idle"
    /\ \A u \in Threads : u < t => th[u].pc # "idle"
    /\ use_lock => \A u \in Threads : th[u].pc = "idle"

CacheUnused ==
    /\ wiring = "own"
    /\ ttl = NoTtl
    /\ use_lock = FALSE
    /\ cache = [c \in Cells |-> NoEntry]
    /\ now = 0
    /\ th = [t \in Threads |-> Idle]
    /\ log = << >>

----------------------------------------------------------------------------
Init ==
    /\ options \in PollingOptions
    /\ has_stop \in BOOLEAN
    /\ pc = "construct"
    /\ attempts = 0
    /\ current_interval = 0
    /\ last_result = None
    /\ last_error = None
    /\ elapsed = 0
    /\ outcome = NoOutcome
    /\ calls = << >>
    /\ waits = << >>
    /\ exit = "none"
    /\ variant = "poll"
    /\ compare = FALSE
    /\ tape = << >>
    /\ first = NoOutcome
    /\ CacheUnused

Return(o, how) ==
    /\ outcome' = o
    /\ exit' = how
    /\ pc' = "done"

\* PollingOptions(...)
Construct ==
    /\ pc = "construct"
    /\ pc' = IF ConstructorAccepts(options) THEN "start" ELSE "rejected"
    /\ UNCHANGED << options, has_stop, attempts, current_interval, last_result,
                    last_error, elapsed, outcome, calls, waits, exit >>
    /\ UNCHANGED replayVars
    /\ UNCHANGED cacheVars

\* poll: the assignments before the loop
PollStart ==
    /\ pc = "start"
    /\ attempts' = 0
    /\ current_interval' = InitialInterval(options)
    /\ last_result' = None
    /\ last_error' = None
    /\ elapsed' = 0
    /\ pc' = "loop"
    /\ UNCHANGED << options, has_stop, outcome, calls, waits, exit >>
    /\ UNCHANGED replayVars
    /\ UNCHANGED cacheVars

\* while attempts < retry_limit is false: the returns after the loop
LoopExit ==
    /\ pc = "loop"
    /\ ~BudgetLeft(attempts, options.retry_limit)
    /\ Return(Finalize(last_error, last_result, attempts, RetryOnError(has_stop)),
              "budget")
    /\ UNCHANGED << options, has_stop, attempts, current_interval, last_result,
                    last_error, elapsed, calls, waits >>
    /\ UNCHANGED replayVars
    /\ UNCHANGED cacheVars

\* the deadline check at the top of the loop body
DeadlineBefore ==
    /\ pc = "loop"
    /\ BudgetLeft(attempts, options.retry_limit)
    /\ DeadlinePassed(elapsed, options.timeout)
    /\ Return(Finalize(last_error, last_result, attempts, RetryOnError(has_stop)),
              "deadline_before")
    /\ UNCHANGED << options, has_stop, attempts, current_interval, last_result,
                    last_error, elapsed, calls, waits >>
    /\ UNCHANGED replayVars
    /\ UNCHANGED cacheVars

\* attempts += 1, then fn() is called
BeginAttempt ==
    /\ pc = "loop"
    /\ BudgetLeft(attempts, options.retry_limit)
    /\ ~DeadlinePassed(elapsed, options.timeout)
    /\ attempts' = NextAttempt(attempts)
    /\ pc' = "call"
    /\ UNCHANGED << options, has_stop, current_interval, last_result,
                    last_error, elapsed, outcome, calls, waits, exit >>
    /\ UNCHANGED replayVars
    /\ UNCHANGED cacheVars

\* await fn() gives a value v after d ms; the stop predicate, when present,
\* answers p
OpReturns ==
    /\ pc = "call"
    /\ \E r \in RawResults, d \in OpDurations,
          p \in IF has_stop THEN {"true", "false", "raise"} ELSE {"none"} :
        /\ Offered("op", r, d, p)
        /\ Observed(r).kind = "value"
        /\ Record("op", r, d, p)
        /\ elapsed' = elapsed + d
        /\ calls' = Append(calls, [kind |-> r.kind, payload |-> r.payload,
                                   pred |-> p])
        /\ last_result' = Observed(r).payload
        /\ last_error' = IF p = "raise" THEN PredError ELSE None
        /\ CASE p = "none" ->
                  Return(PollSuccess(Observed(r).payload, attempts), "value")
             [] p = "true" ->
                  Return(OnStopSatisfied(Observed(r).payload, attempts), "stop")
             [] p = "false" ->
                  pc' = "post" /\ UNCHANGED << outcome, exit >>
             [] p = "raise" ->
                  IF ~TryCovers("stop_condition")
                  THEN pc' = "raised" /\ UNCHANGED << outcome, exit >>
                  ELSE IF ~RetryOnError(has_stop)
                  THEN Return(PollFailure(PredError, attempts), "fatal")
                  ELSE pc' = "post" /\ UNCHANGED << outcome, exit >>
    /\ UNCHANGED << options, has_stop, attempts, current_interval, waits,
                    variant, compare, first >>
    /\ UNCHANGED cacheVars

\* await fn() raises e after d ms
OpRaises ==
    /\ pc = "call"
    /\ \E r \in RawResults, d \in OpDurations :
        /\ Offered("op", r, d, "none")
        /\ Observed(r).kind = "error"
        /\ Record("op", r, d, "none")
        /\ elapsed' = elapsed + d
        /\ calls' = Append(calls, [kind |-> r.kind, payload |-> r.payload,
                                   pred |-> "none"])
        /\ last_error' = Observed(r).payload
        /\ IF ~TryCovers("fn")
           THEN pc' = "raised" /\ UNCHANGED << outcome, exit >>
           ELSE IF ~RetryOnError(has_stop)
           THEN Return(PollFailure(Observed(r).payload, attempts), "fatal")
           ELSE pc' = "post" /\ UNCHANGED << outcome, exit >>
    /\ UNCHANGED << options, has_stop, attempts, current_interval, last_result,
                    waits, variant, compare, first >>
    /\ UNCHANGED cacheVars

\* the deadline check after the attempt
DeadlineAfter ==
    /\ pc = "post"
    /\ DeadlinePassed(elapsed, options.timeout)
    /\ Return(Finalize(last_error, last_result, attempts, RetryOnError(has_stop)),
              "deadline_after")
    /\ UNCHANGED << options, has_stop, attempts, current_interval, last_result,
                    last_error, elapsed, calls, waits >>
    /\ UNCHANGED replayVars
    /\ UNCHANGED cacheVars

\* if attempts < retry_limit: sleep, then grow current_interval
Wait ==
    /\ pc = "post"
    /\ ~DeadlinePassed(elapsed, options.timeout)
    /\ BudgetLeft(attempts, options.retry_limit)
    /\ \E late \in Lateness :
        /\ Offered("sleep", NoResult, late, "none")
        /\ Record("sleep", NoResult, late, "none")
        /\ elapsed' = elapsed + SleepTime(current_interval, late)
    /\ waits' = Append(waits, current_interval)
    /\ current_interval' = NextInterval(current_interval, options.backoff_factor)
    /\ pc' = "loop"
    /\ UNCHANGED << options, has_stop, attempts, last_result, last_error,
                    outcome, calls, exit, variant, compare, first >>
    /\ UNCHANGED cacheVars

\* attempts = retry_limit after the attempt: no sleep, back to the loop test
NoWait ==
    /\ pc = "post"
    /\ ~DeadlinePassed(elapsed, options.timeout)
    /\ ~BudgetLeft(attempts, options.retry_limit)
    /\ pc' = "loop"
    /\ UNCHANGED << options, has_stop, attempts, current_interval, last_result,
                    last_error, elapsed, outcome, calls, waits, exit >>
    /\ UNCHANGED replayVars
    /\ UNCHANGED cacheVars

Next ==
    \/ Construct
    \/ PollStart
    \/ LoopExit
    \/ DeadlineBefore
    \/ BeginAttempt
    \/ OpReturns
    \/ OpRaises
    \/ DeadlineAfter
    \/ Wait
    \/ NoWait

Spec == Init /\ [][Next]_vars

\* poll_sync: asyncio.run(poll(wrapped_fn, options, stop_condition)), started
\* here on the options, predicate and operation of a poll run that has returned
PollSync ==
    /\ pc = "done"
    /\ compare
    /\ variant = "poll"
    /\ variant' = "poll_sync"
    /\ first' = outcome
    /\ pc' = "start"
    /\ outcome' = NoOutcome
    /\ calls' = << >>
    /\ waits' = << >>
    /\ exit' = "none"
    /\ UNCHANGED << options, has_stop, attempts, current_interval, last_result,
                    last_error, elapsed, compare, tape >>
    /\ UNCHANGED cacheVars

\* the configurations on which the two entry points are compared
SyncOptions ==
    [interval : {100, 1500}, timeout : {0, 50, 5000},
     backoff_factor : {2}, retry_limit : 0 .. MaxRetryLimit]

InitSync ==
    /\ options \in SyncOptions
    /\ has_stop \in BOOLEAN
    /\ pc = "construct"
    /\ attempts = 0
    /\ current_interval = 0
    /\ last_result = None
    /\ last_error = None
    /\ elapsed = 0
    /\ outcome = NoOutcome
    /\ calls = << >>
    /\ waits = << >>
    /\ exit = "none"
    /\ variant = "poll"
    /\ compare = TRUE
    /\ tape = << >>
    /\ first = NoOutcome
    /\ CacheUnused

NextSync == Next \/ PollSync

SyncSpec == InitSync /\ [][NextSync]_vars

----------------------------------------------------------------------------
(* Calls of the functions wrapped by memomize_with_ttl *)

PollUnused ==
    /\ options = [interval |-> 0, timeout |-> 0, backoff_factor |-> 1,
                  retry_limit |-> 1]
    /\ has_stop = FALSE
    /\ pc = "unused"
    /\ attempts = 0
    /\ current_interval = 0
    /\ last_result = None
    /\ last_error = None
    /\ elapsed = 0
    /\ outcome = NoOutcome
    /\ calls = << >>
    /\ waits = << >>
    /\ exit = "none"
    /\ variant = "poll"
    /\ compare = FALSE
    /\ tape = << >>
    /\ first = NoOutcome

InitCache ==
    /\ PollUnused
    /\ wiring \in {"own", "shared"}
    /\ ttl \in Ttls
    /\ use_lock \in BOOLEAN
    /\ cache = [c \in Cells |-> NoEntry]
    /\ now = 0
    /\ th = [t \in Threads |-> Idle]
    /\ log = << >>

\* datetime.now() moves on
Tick ==
    /\ now < MaxTime
    /\ now' = now + 1
    /\ UNCHANGED << wiring, ttl, use_lock, cache, th, log >>
    /\ UNCHANGED << pollVars, replayVars >>

\* func: now = datetime.now(); the entry is there and not expired: return it
CallHit(t, w, a) ==
    /\ MayEnter(t)
    /\ Started < MaxCalls
    /\ Hit(cache[CellOf(w)], now, a)
    /\ log' = Append(log, [w |-> w, arg |-> a, at |-> now, hit |-> TRUE,
                           raised |-> FALSE,
                           value |-> cache[CellOf(w)].value])
    /\ UNCHANGED << wiring, ttl, use_lock, cache, now, th >>
    /\ UNCHANGED << pollVars, replayVars >>

\* func: now = datetime.now(); no entry, or an expired one: go on to call fn
CallMiss(t, w, a) ==
    /\ MayEnter(t)
    /\ Started < MaxCalls
    /\ ~Hit(cache[CellOf(w)], now, a)
    /\ th' = [th EXCEPT ![t] = [pc |-> "invoke", w |-> w, arg |-> a, at |-> now]]
    /\ UNCHANGED << wiring, ttl, use_lock, cache, now, log >>
    /\ UNCHANGED << pollVars, replayVars >>

\* result = fn(*args, **kwargs); expiry from the `now` read on entry;
\* cache = {"value": result, "expiry": expiry}; return result
Invoke(t) ==
    /\ th[t].pc = "invoke"
    /\ cache' = [cache EXCEPT ![CellOf(th[t].w)] =
                     Entry(Result(th[t].w, th[t].arg), ttl, th[t].at)]
    /\ log' = Append(log, [w |-> th[t].w, arg |-> th[t].arg, at |-> th[t].at,
                           hit |-> FALSE, raised |-> FALSE,
                           value |-> Result(th[t].w, th[t].arg)])
    /\ th' = [th EXCEPT ![t] = Idle]
    /\ UNCHANGED << wiring, ttl, use_lock, now >>
    /\ UNCHANGED << pollVars, replayVars >>

\* result = fn(*args, **kwargs) raises: the exception leaves func, nothing
\* is stored
InvokeRaises(t) ==
    /\ th[t].pc = "invoke"
    /\ log' = Append(log, [w |-> th[t].w, arg |-> th[t].arg, at |-> th[t].at,
                           hit |-> FALSE, raised |-> TRUE, value |-> NoValue])
    /\ th' = [th EXCEPT ![t] = Idle]
    /\ UNCHANGED << wiring, ttl, use_lock, cache, now >>
    /\ UNCHANGED << pollVars, replayVars >>

NextCache ==
    \/ Tick
    \/ \E t \in Threads, w \in Wrapped, a \in Args : CallHit(t, w, a)
    \/ \E t \in Threads, w \in Wrapped, a \in Args : CallMiss(t, w, a)
    \/ \E t \in Threads : Invoke(t)
    \/ \E t \in Threads : InvokeRaises(t)

CacheSpec == InitCache /\ [][NextCache]_vars

----------------------------------------------------------------------------
TypeOK ==
    /\ options \in PollingOptions
    /\ has_stop \in BOOLEAN
    /\ pc \in {"construct", "rejected", "start", "loop", "call", "post",
               "done", "raised", "unused"}
    /\ attempts \in Nat
    /\ current_interval \in Int
    /\ last_result \in Values \cup {None}
    /\ last_error \in Errors \cup {PredError, None}
    /\ elapsed \in Nat
    /\ outcome.kind \in {"none", "Success", "Failure"}
    /\ Len(calls) <= MaxRetryLimit + 1
    /\ Len(waits) <= MaxRetryLimit + 1
    /\ variant \in {"poll", "poll_sync"}
    /\ compare \in BOOLEAN
    /\ wiring \in {"own", "shared"}
    /\ ttl \in Ttls
    /\ use_lock \in BOOLEAN
    /\ now \in 0 .. MaxTime
    /\ \A c \in Cells : cache[c].present \in BOOLEAN
    /\ \A t \in Threads : th[t].pc \in {"idle", "invoke"}
    /\ Len(log) <= MaxCalls
    /\ first.kind \in {"none", "Success", "Failure"}
    /\ \A i \in 1 .. Len(tape) : tape[i].t \in {"op", "sleep"}

----------------------------------------------------------------------------
(* What a finished run looked like, read off the history *)

Done == pc = "done"
NumCalls == Len(calls)
LastCall == calls[NumCalls]

\* every invocation returned a value (no predicate, or one that raised nothing)
NeverErrors == \A k \in 1 .. NumCalls : calls[k].kind = "value"
EveryAttemptErrors == \A k \in 1 .. NumCalls : calls[k].kind = "error"
\* every invocation returned a value that the predicate rejected
NeverSatisfied ==
    \A k \in 1 .. NumCalls : calls[k].kind = "value" /\ calls[k].pred = "false"
LastValue == IF NumCalls = 0 THEN None ELSE LastCall.payload

\* attempt k neither returned from poll nor raised out of it
CallContinues(k) ==
    \/ calls[k].kind = "error" /\ ~has_stop
    \/ calls[k].kind = "value" /\ calls[k].pred = "false"

----------------------------------------------------------------------------
(* C1: for every accepted configuration (timeout = 0 included) the returned
   outcome has 1 <= attempts <= retry_limit, and attempts is the number of
   invocations of the operation. *)
C1_AttemptsInRange ==
    (Done /\ ValidOptions(options)) =>
        /\ 1 <= outcome.attempts
        /\ outcome.attempts <= options.retry_limit
        /\ outcome.attempts = NumCalls

(* C2: without a stop predicate poll returns Success(v, k) at the first attempt
   k that returns a value v and calls the operation no more; when the operation
   never errors that is Success after exactly 1 attempt. *)
C2_FirstValueWins ==
    (Done /\ ~has_stop /\ ValidOptions(options)) =>
        /\ \A k \in 1 .. NumCalls :
              calls[k].kind = "value" =>
                  outcome = PollSuccess(calls[k].payload, k) /\ NumCalls = k
        /\ NeverErrors =>
              outcome.kind = "Success" /\ outcome.attempts = 1 /\ NumCalls = 1

(* C3: with a stop predicate, when the value of attempt k is the first to
   satisfy it, poll returns Success with attempts = k <= retry_limit and that
   value, and the run is over. *)
C3_StopSatisfied ==
    (has_stop /\ NumCalls >= 1 /\ LastCall.pred = "true") =>
        /\ Done
        /\ outcome = PollSuccess(LastCall.payload, NumCalls)
        /\ NumCalls <= options.retry_limit
        /\ \A j \in 1 .. NumCalls - 1 : CallContinues(j)

C3_Witness ==
    /\ Done /\ has_stop /\ NumCalls = 3
    /\ LastCall.pred = "true"
    /\ calls[1].payload # LastCall.payload
    /\ outcome = PollSuccess(LastCall.payload, 3)

(* C4 as stated: with a stop predicate that is never satisfied and an operation
   that never errors, poll returns Success with attempts = retry_limit and the
   value of the last attempt. *)
C4_NeverSatisfiedOriginal ==
    (Done /\ has_stop /\ ValidOptions(options) /\ NumCalls >= 1 /\ NeverSatisfied) =>
        outcome = PollSuccess(LastValue, options.retry_limit)

(* C4 amended: under the same conditions poll returns Success, never Failure,
   carrying the value of the last attempt made (absent when none was made) and
   the number of attempts made; that number is retry_limit (0 for a negative
   retry_limit) when the deadline has not passed by the time poll returns, and
   may be smaller when a deadline check ended the run. *)
C4_NeverSatisfied ==
    (Done /\ has_stop /\ NeverSatisfied) =>
        /\ outcome = PollSuccess(LastValue, NumCalls)
        /\ NumCalls <= Max(options.retry_limit, 0)
        /\ ~DeadlinePassed(elapsed, options.timeout) =>
              /\ exit = "budget"
              /\ outcome.attempts = Max(options.retry_limit, 0)

C4_Witness ==
    /\ Done /\ has_stop /\ NeverSatisfied
    /\ options.retry_limit = 3 /\ NumCalls = 3
    /\ exit = "budget"
    /\ outcome = PollSuccess(calls[3].payload, 3)

(* C5 as stated: without a stop predicate, when every attempt raises, poll
   returns Failure with attempts = retry_limit and the error of the last
   attempt. *)
C5_AllErrorsOriginal ==
    (Done /\ ~has_stop /\ ValidOptions(options) /\ NumCalls >= 1
          /\ EveryAttemptErrors) =>
        outcome = PollFailure(LastCall.payload, options.retry_limit)

(* C5 amended: without a stop predicate, when every attempt made raises and at
   least one was made, poll returns Failure with the error of the last attempt
   and the number of attempts made; that number is retry_limit when the deadline
   has not passed by the time poll returns and may be smaller when a deadline
   check ended the run.  When no attempt was made at all the outcome is
   Success(absent, 0). *)
C5_AllErrors ==
    (Done /\ ~has_stop /\ EveryAttemptErrors) =>
        /\ NumCalls >= 1 => outcome = PollFailure(LastCall.payload, NumCalls)
        /\ NumCalls = 0 => outcome = PollSuccess(None, 0)
        /\ NumCalls <= Max(options.retry_limit, 0)
        /\ ~DeadlinePassed(elapsed, options.timeout) =>
              /\ exit = "budget"
              /\ outcome.attempts = Max(options.retry_limit, 0)

C5_Witness ==
    /\ Done /\ ~has_stop /\ EveryAttemptErrors
    /\ options.retry_limit = 3 /\ NumCalls = 3
    /\ calls[2].payload # calls[3].payload
    /\ exit = "budget"
    /\ outcome = PollFailure(calls[3].payload, 3)

(* C6: with a stop predicate, an error raised by the operation on attempt k
   ends the run at once with Failure(that error, k): no wait follows the
   attempt and the operation is not called again, whatever budget and time
   remain. *)
C6_ErrorIsFatal ==
    (has_stop /\ NumCalls >= 1 /\ LastCall.kind = "error") =>
        /\ Done
        /\ outcome = PollFailure(LastCall.payload, NumCalls)
        /\ Len(waits) = NumCalls - 1

C6_Witness ==
    /\ Done /\ has_stop /\ NumCalls = 2
    /\ LastCall.kind = "error"
    /\ options.retry_limit = 4
    /\ ~DeadlinePassed(elapsed, options.timeout)
    /\ outcome = PollFailure(LastCall.payload, 2)

(* C7: the wait between attempt n and attempt n+1 is interval *
   backoff_factor^(n-1) ms (100, 200, 400 for interval 100 and factor 2; always
   interval for factor 1), so no wait is shorter than the base interval. *)
C7_BackoffSchedule ==
    ValidOptions(options) =>
        \A n \in 1 .. Len(waits) :
            /\ waits[n] = options.interval * Pow(options.backoff_factor, n - 1)
            /\ waits[n] >= options.interval

(* C8: when the first wait is at least the timeout and the first attempt does
   not end the run, exactly one attempt is made and a deadline check ends the
   run with attempts = 1, though the retry budget is not used up. *)
C8_DeadlinePrecedence ==
    (NumCalls >= 1 /\ options.interval >= options.timeout) =>
        /\ NumCalls = 1
        /\ attempts = 1
        /\ (Done /\ CallContinues(1) /\ options.retry_limit > 1) =>
              /\ exit \in {"deadline_before", "deadline_after"}
              /\ outcome.attempts = 1

C8_Witness ==
    /\ Done /\ NumCalls = 1 /\ CallContinues(1)
    /\ options.timeout = 50 /\ options.interval = 1000
    /\ options.retry_limit = MaxRetryLimit
    /\ waits = << 1000 >>
    /\ exit = "deadline_before"
    /\ outcome.attempts = 1

(* C9: poll never raises: an error raised by the operation or by the stop
   predicate, the deadline and the exhausted budget all end in a returned
   PollSuccess or PollFailure. *)
C9_NeverRaises ==
    /\ pc # "raised"
    /\ Done => outcome.kind \in {"Success", "Failure"}
    /\ (NumCalls >= 1 /\ LastCall.pred = "raise") =>
          Done /\ outcome = PollFailure(PredError, NumCalls)
    /\ (NumCalls >= 1 /\ LastCall.kind = "error") =>
          pc \in {"post", "loop", "call", "done"}

C9_Witness ==
    /\ Done /\ NumCalls = 2
    /\ LastCall.pred = "raise"
    /\ outcome = PollFailure(PredError, 2)

(* C10: an invalid configuration (negative interval or timeout, retry_limit
   < 1) is rejected when PollingOptions is constructed, so poll never runs and
   never calls the operation with one. *)
C10_InvalidRejected ==
    /\ (pc = "call" \/ NumCalls >= 1) => ValidOptions(options)
    /\ Done => ValidOptions(options)

----------------------------------------------------------------------------
(* C17: a run ended by a deadline check (before an attempt or right after one)
   returns Failure with the last recorded error exactly when there is no stop
   predicate and the most recent attempt raised; in every other case it
   returns Success with the last value obtained (absent when no attempt
   returned one).  With a stop predicate a deadline never gives Failure. *)
EndedByDeadline == Done /\ exit \in {"deadline_before", "deadline_after"}

C17_DeadlineOutcome ==
    EndedByDeadline =>
        /\ outcome.attempts = NumCalls
        /\ IF ~has_stop /\ NumCalls >= 1 /\ LastCall.kind = "error"
           THEN outcome = PollFailure(LastCall.payload, NumCalls)
           ELSE /\ outcome.kind = "Success"
                /\ outcome.payload = last_result
                /\ last_result =
                       IF \E k \in 1 .. NumCalls : calls[k].kind = "value"
                       THEN LastValue ELSE None
        /\ has_stop => outcome.kind = "Success"

C17_Witness ==
    /\ EndedByDeadline /\ ~has_stop /\ NumCalls = 2
    /\ LastCall.kind = "error"
    /\ outcome = PollFailure(LastCall.payload, 2)

C17_WitnessSuccess ==
    /\ EndedByDeadline /\ has_stop /\ NumCalls = 2
    /\ outcome = PollSuccess(LastCall.payload, 2)

(* C18: no attempt begins once the deadline has passed: at every invocation
   the elapsed time read by the check just before it is below timeout, and no
   sleep is started when the elapsed time after an attempt is at least
   timeout. *)
C18_NoAttemptAfterDeadline ==
    [][ /\ (pc = "loop" /\ pc' = "call") =>
              ~(elapsed >= options.timeout) /\ elapsed' = elapsed
        /\ Len(waits') > Len(waits) =>
              pc = "post" /\ ~(elapsed >= options.timeout) ]_vars

C18_Witness ==
    /\ pc = "call" /\ attempts = 3 /\ Len(waits) = 2
    /\ elapsed > 0 /\ elapsed < options.timeout

(* C20: every run terminates with exactly one outcome: when each invocation
   and each wait ends, the run reaches its return after at most retry_limit
   invocations, the attempt counter growing by one on every iteration. *)
C20_Terminates ==
    /\ <>Done
    /\ [](NumCalls <= Max(options.retry_limit, 0))
    /\ [][ /\ attempts' >= attempts
           /\ (pc = "loop" /\ pc' = "call") => attempts' = attempts + 1
           /\ outcome # NoOutcome => outcome' = outcome /\ pc' = "done" ]_vars

C20_Witness ==
    /\ Done /\ exit = "budget"
    /\ options.retry_limit = MaxRetryLimit
    /\ NumCalls = MaxRetryLimit
    /\ outcome.attempts = MaxRetryLimit

\* The event loop keeps running the coroutine; invocations and waits end.
LiveSpec == Spec /\ WF_vars(Next)

----------------------------------------------------------------------------
(* C15: within one run attempts are sequential and numbered 1, 2, 3, ...
   without gaps: at most one invocation of the operation is in flight, and
   attempt N+1 begins only after attempt N's value or error was recorded in
   last_result / last_error and the stop predicate asked. *)
InFlight == attempts - NumCalls

C15_SequentialAttempts ==
    /\ InFlight \in {0, 1}
    /\ InFlight = 1 <=> pc = "call"
    /\ (pc = "call" /\ NumCalls >= 1) =>
          /\ CallContinues(NumCalls)
          /\ LastCall.kind = "value" =>
                last_result = LastCall.payload /\ last_error = None
          /\ LastCall.kind = "error" => last_error = LastCall.payload

C15_Witness ==
    /\ pc = "call" /\ attempts = 3 /\ NumCalls = 2
    /\ calls[1].kind = "error" /\ calls[2].kind = "error"
    /\ last_error = calls[2].payload

(* C16: poll_sync and poll are the same state machine: on the same options,
   predicate and operation behaviour at the same times, poll_sync returns the
   same variant, value or error and attempts as poll; it keeps retrying after
   a value the supplied predicate rejects. *)
C16_SyncEquivalent ==
    variant = "poll_sync" =>
        /\ pc # "raised"
        /\ Done => outcome = first /\ TapePos = Len(tape)
        /\ pc = "call" => TapePos < Len(tape) /\ tape[TapePos + 1].t = "op"
        /\ (pc = "post" /\ ~DeadlinePassed(elapsed, options.timeout)
                        /\ BudgetLeft(attempts, options.retry_limit)) =>
              TapePos < Len(tape) /\ tape[TapePos + 1].t = "sleep"
        /\ (has_stop /\ NumCalls >= 1 /\ LastCall.kind = "value"
                     /\ LastCall.pred = "false") =>
              /\ pc \in {"post", "loop", "call", "done"}
              /\ Done => exit \in {"deadline_before", "deadline_after", "budget"}

C16_Witness ==
    /\ variant = "poll_sync" /\ Done /\ has_stop
    /\ NumCalls = 3
    /\ calls[1].pred = "false" /\ calls[2].pred = "false"
    /\ calls[3].pred = "true"
    /\ outcome = first
    /\ outcome = PollSuccess(calls[3].payload, 3)

----------------------------------------------------------------------------
(* The cache of memomize_with_ttl *)

Misses(S) == {k \in S : ~log[k].hit}
Stores(S) == {k \in S : ~log[k].hit /\ ~log[k].raised}
Last(S) == IF S = {} THEN 0 ELSE CHOOSE k \in S : \A m \in S : m <= k

\* the last call before call j that stored a value of the function wrapped as
\* log[j].w
OwnStorer(j) == Last(Stores({k \in 1 .. j - 1 : log[k].w = log[j].w}))
\* the last call before call j that stored into the slot call j looked at
SlotStorer(j) ==
    Last(Stores({k \in 1 .. j - 1 : CellOf(log[k].w) = CellOf(log[j].w)}))

\* C11: a function wrapped with a ttl and called sequentially: a call made
\* before (time of the function's storing call + ttl) returns the value that
\* call stored and does not invoke the function; a call with no storing call
\* before it, or made at or after the expiry, invokes the function once and
\* the value the function returns is a new one of its own.
C11_TtlWindow ==
    (use_lock /\ ttl.present) =>
        \A j \in 1 .. Len(log) :
            LET i == OwnStorer(j) IN
            IF i # 0 /\ log[j].at < log[i].at + ttl.d
            THEN log[j].hit /\ log[j].value = log[i].value
            ELSE /\ ~log[j].hit
                 /\ ~log[j].raised =>
                        /\ log[j].value.fn = log[j].w
                        /\ \A k \in 1 .. j - 1 : log[k].value # log[j].value

\* C12: with ttl absent and sequential calls, a wrapped function of which a
\* call has returned was invoked exactly once, and every call of it that
\* returned gave the value of that invocation.
C12_InvokedOnce ==
    (use_lock /\ ~ttl.present) =>
        \A w \in Wrapped :
            LET mine == {k \in 1 .. Len(log) : log[k].w = w /\ ~log[k].raised} IN
            mine # {} =>
                /\ Cardinality(Invocations(w)) = 1
                /\ \A k \in mine : log[k].value = [fn |-> w,
                                                    arg |-> log[Last(Invocations(w))].arg,
                                                    seq |-> 1]

\* C13: a call that finds an unexpired entry returns the value computed for
\* the arguments of the call that stored it, whatever its own arguments are,
\* and does not invoke the function.
C13_ArgumentsIgnored ==
    use_lock =>
        \A j \in 1 .. Len(log) :
            LET i == SlotStorer(j) IN
            (i # 0 /\ (ttl.present => log[j].at < log[i].at + ttl.d))
                => /\ log[j].hit
                   /\ log[j].value = log[i].value
                   /\ log[j].value.arg = log[i].arg

C13_Witness ==
    /\ use_lock
    /\ \E j \in 1 .. Len(log) :
           /\ log[j].hit
           /\ SlotStorer(j) # 0
           /\ log[j].arg # log[SlotStorer(j)].arg
           /\ log[j].value.arg = log[SlotStorer(j)].arg

\* C14: a call of one wrapped function never returns a value computed by the
\* other wrapped function, and the stored entry of one is never a value of
\* the other.
C14_OwnSlot ==
    /\ \A j \in 1 .. Len(log) : ~log[j].raised => log[j].value.fn = log[j].w
    /\ \A w \in Wrapped :
           cache[CellOf(w)].present => cache[CellOf(w)].value.fn = w

\* an invocation through a slot by a call that read the clock inside the
\* window opened by an earlier invocation that stored into the slot
TwiceInWindow ==
    \E i \in Stores(1 .. Len(log)), j \in Misses(1 .. Len(log)) :
        /\ i < j
        /\ CellOf(log[i].w) = CellOf(log[j].w)
        /\ (ttl.present => log[j].at < log[i].at + ttl.d)

\* C19: when every call is one critical section, a function is invoked at most
\* once per TTL window (at most once after its value is stored when ttl is
\* absent); without the critical section two callers can both pass the expiry
\* check and both invoke.
C19_OncePerWindowUnderLock == use_lock => ~TwiceInWindow

C19_Witness ==
    /\ ~use_lock
    /\ TwiceInWindow
    /\ \E i, j \in Stores(1 .. Len(log)) :
           i < j /\ log[i].w = log[j].w /\ log[i].at = log[j].at

====
